---- MODULE Spec2Model ----
(***************************************************************************)
(* Sales Resolve backend: the config loader, the two server variants (the  *)
(* mock server and the hybrid Supabase + in-memory server), the login      *)
(* handler and the email service, as a state machine.                      *)
(*                                                                         *)
(* The clock counts milliseconds since the epoch, so Date.now() is the     *)
(* clock and toISOString() of a clock below 1000 is                        *)
(* "1970-01-01T00:00:00.mmmZ".                                             *)
(***************************************************************************)
EXTENDS Integers, Sequences, FiniteSets

\* ---------------------------------------------------------------- bounds

\* Requests received by one server run.
MaxReq == 2
\* Requests suspended at an await at the same time.
MaxInflight == 2
\* Milliseconds that pass during one run.
MaxTicks == 1
\* The clock value at process start.
ClockStart == 10
\* Login requests received by one server run.
MaxLogins == 2
\* Sessions of the socket layer.
MaxSessions == 2
\* Socket events (connect, disconnect, join-room, new-message) of one run.
MaxEvents == 4
\* Termination signals sent to one process.
MaxSignals == 2
\* Connections the HTTP server holds open at once.
MaxConns == 1

\* ------------------------------------------------------------- JS values

\* A JavaScript value of a request body: undefined (the key is absent),
\* a string, or a one-element array holding a string.
JSUndefined == [t |-> "undefined", v |-> ""]
Str(s) == [t |-> "string", v |-> s]
Arr1(s) == [t |-> "array", v |-> s]

\* ToBoolean: undefined, null and the empty string are falsy; a non-empty
\* string and every array are truthy.
Truthy(x) ==
    \/ x.t = "string" /\ x.v # ""
    \/ x.t = "array"

Digits == <<"0", "1", "2", "3", "4", "5", "6", "7", "8", "9">>

\* Number.prototype.toString of a non-negative integer, as its characters.
RECURSIVE ToString(_)
ToString(n) ==
    IF n < 10 THEN <<Digits[n + 1]>>
    ELSE ToString(n \div 10) \o <<Digits[(n % 10) + 1]>>

\* Date.prototype.toISOString of the instant t ms after the epoch (t < 1000).
ToISOString(t) ==
    <<"1970-01-01T00:00:00.">>
        \o <<Digits[(t \div 100) + 1], Digits[((t \div 10) % 10) + 1],
             Digits[(t % 10) + 1]>>
        \o <<"Z">>

\* ------------------------------------------------------- message records

NoText == <<>>

\* The placeholder of "no record" (a response that carries no data).
NoRecord ==
    [id |-> NoText, name |-> JSUndefined, email |-> JSUndefined,
     message |-> JSUndefined, status |-> "", created_at |-> NoText]

\* The two fixtures messagesStorage is seeded with at module load: each
\* reads the clock for its created_at, the second one possibly later.
Fixtures(now, later) ==
    << [id |-> <<"1">>, name |-> Str("Test User 1"),
        email |-> Str("test1@example.com"), message |-> Str("Test message 1"),
        status |-> "new", created_at |-> ToISOString(now)],
       [id |-> <<"2">>, name |-> Str("Test User 2"),
        email |-> Str("test2@example.com"), message |-> Str("Test message 2"),
        status |-> "new", created_at |-> ToISOString(later)] >>

\* The two records the mock server builds on every GET /api/messages, with
\* a read of the clock each.
MockMessages(now, later) ==
    << [id |-> <<"1">>, name |-> Str("Test User 1"),
        email |-> Str("test1@example.com"), message |-> Str("Test message 1"),
        status |-> "new", created_at |-> ToISOString(now)],
       [id |-> <<"2">>, name |-> Str("Test User 2"),
        email |-> Str("test2@example.com"), message |-> Str("Test message 2"),
        status |-> "new", created_at |-> ToISOString(later)] >>

\* NewMessage with an id and a created_at that decrease as time passes.
NewMessage_CountingDown(name, email, message, now, later) ==
    [id |-> ToString(999 - now), name |-> name, email |-> email,
     message |-> message, status |-> "new",
     created_at |-> ToISOString(999 - later)]

\* The record a POST builds locally before any persistence attempt: the id
\* is Date.now() and created_at is a second, later read of the clock.
NewMessage(name, email, message, now, later) ==
    [id |-> ToString(now), name |-> name, email |-> email,
     message |-> message, status |-> "new", created_at |-> ToISOString(later)]

\* MissingRequiredFields without the check of message.
MissingRequiredFields_NoMessageCheck(name, email, message) ==
    ~Truthy(name) \/ ~Truthy(email)

\* The validation of POST /api/messages: !name || !email || !message.
MissingRequiredFields(name, email, message) ==
    ~Truthy(name) \/ ~Truthy(email) \/ ~Truthy(message)

\* ------------------------------------------------------------ environment

\* process.env.SUPABASE_URL && process.env.SUPABASE_SERVICE_ROLE_KEY
DbConfigured(e) == e.url /\ e.key

\* The process environments: each of SUPABASE_URL, SUPABASE_SERVICE_ROLE_KEY
\* and RESEND_API_KEY present or absent, with ADMIN_EMAIL unset ("").
Environments ==
    [url : BOOLEAN, key : BOOLEAN, resend : BOOLEAN, adminEmail : {""}]

\* The environments that set the database pair and ADMIN_EMAIL.
AdminEnvironments ==
    [url : {TRUE}, key : {TRUE}, resend : BOOLEAN,
     adminEmail : {"boss@example.com"}]

\* The outcomes of an awaited Supabase call: it resolves to {data, error}
\* with a record ("ok"), with an error ("error") or with neither
\* ("nodata"), or it rejects ("raise").
DbOutcomes == {"ok", "error", "nodata", "raise"}
HasError(o) == o = "error"
HasData(o) == o = "ok"

\* A promise rejects with any value: "raise" is a rejection whose reason is
\* an object, such as an Error, and "raiseNull" one whose reason is null or
\* undefined. The two differ only where a catch reads a property of the
\* reason.
Raises(o) == o \in {"raise", "raiseNull"}

\* error.message in a catch: reading a property of null or undefined throws
\* a TypeError out of the catch.
MessageReadThrows(o) == o = "raiseNull"

\* The outcomes of the awaited insert of the POST handler, whose catch reads
\* error.message.
InsertOutcomes == DbOutcomes \cup {"raiseNull"}

\* The outcomes of the awaited provider call resend.emails.send, in a try
\* whose catch reads error.message after the log write.
ProviderOutcomes == {"ok", "raise", "raiseNull"}

\* The row the database returns for an inserted message: the inserted
\* columns plus an id and a creation time that the database generates. The
\* creation time is read from the database's clock, not the server's, and
\* is later for a later row: it is the n-th instant of that clock.
DbRow(n, name, email, message) ==
    [id |-> <<"uuid-">> \o ToString(n), name |-> name, email |-> email,
     message |-> message, status |-> "new",
     created_at |-> <<"db-time-">> \o ToString(n)]

RECURSIVE Reverse(_)
Reverse(q) ==
    IF q = <<>> THEN <<>> ELSE Reverse(Tail(q)) \o <<Head(q)>>

\* select('*').order('created_at', {ascending: false}) on the messages
\* table: rows are stored in insertion order with increasing created_at,
\* so the newest-first order is the reverse.
SelectOrderDesc(rows) == Reverse(rows)

\* ------------------------------------------------------------------ state

VARIABLES
    variant,          \* which server file runs: "mock" or "hybrid"
    env,              \* process.env: which settings are present
    proc,             \* "loading", "configLoaded", "running", "exited"
    exitCode,         \* the code of process.exit, -1 while the process lives
    clock,            \* Date.now()
    messagesStorage,  \* the in-memory list of the hybrid server
    dbMessages,       \* the rows of the database table messages
    inflight,         \* the handlers suspended at an await, in arrival order
    last,             \* the request answered most recently, with its response
    answered,         \* the number of requests answered so far
    posted,           \* the records returned by 201 while the pair is unset
    lastLogin,        \* the login request answered most recently
    sockets,          \* the socket layer: each session's connection and rooms
    broadcast,        \* the message-received emitted most recently
    event,            \* the socket event handled most recently
    signals,          \* the termination signals received, in order
    closing,          \* server.close has been called
    conns,            \* the connections the HTTP server still holds open
    timers,           \* the times at which pending forced-exit timers are due
    overlapped,       \* a POST was received while another was suspended
    unhandled         \* the rejected handler promises Node has yet to act on

\* No handler promise has rejected: none awaits Node's reaction, and none
\* has been let off with a warning.
NoRejection == [pending |-> FALSE, warned |-> FALSE]

\* The socket layer and the process lifecycle.
ioVars == <<sockets, broadcast, event>>
lifeVars == <<signals, closing, conns, timers>>

vars ==
    <<variant, env, proc, exitCode, clock, messagesStorage, dbMessages,
      inflight, last, answered, posted, lastLogin, ioVars, lifeVars,
      overlapped, unhandled>>

\* Sessions of the socket layer: one socket each.
Sessions == 1..MaxSessions

\* The text a template literal renders a value as: undefined is
\* "undefined", a string is itself, a one-element array is its element.
TemplateText(x) == IF x.t = "undefined" THEN "undefined" ELSE x.v

\* Room names are strings, kept as their fragments: `client-${userId}` is
\* the prefix followed by the interpolated text.
ClientRoom(userId) == <<"client-", TemplateText(userId)>>

\* The id of a session's socket.  The socket layer joins every socket to
\* the room of that name when it connects.
SocketId(s) == <<"socket-">> \o ToString(s)

\* A session that has not connected yet.  onlyClient, sentUserIds and
\* sentRoomIds record the join-room events the session has sent.
NoSocket ==
    [status |-> "idle", rooms |-> {}, onlyClient |-> TRUE,
     sentUserIds |-> {}, sentRoomIds |-> {}]

\* No socket event has been handled.
NoEvent ==
    [n |-> 0, name |-> "", from |-> 0, roomId |-> NoText,
     userId |-> JSUndefined, userRole |-> JSUndefined]

\* No message-received has been emitted.
NoBroadcast ==
    [roomId |-> NoText,
     submitted |-> [text |-> "", timestamp |-> NoText],
     payload |-> [text |-> "", timestamp |-> NoText],
     to |-> {}]

\* The positions of the list of suspended handlers.
Slots == 1..MaxInflight

\* A request and everything its handler has done so far.
NoRequest ==
    [kind |-> "none", pc |-> "idle",
     name |-> JSUndefined, email |-> JSUndefined, message |-> JSUndefined,
     newMessage |-> NoRecord, saved |-> NoRecord,
     dbCalls |-> 0, outcome |-> "none",
     notifications |-> 0, providerCalls |-> 0, provider |-> "none",
     logWrites |-> <<>>, log |-> "none", logStored |-> <<>>, pushes |-> 0,
     status |-> 0, code |-> "", text |-> "", data |-> NoRecord,
     messages |-> <<>>]

NoLogin ==
    [seq |-> 0, email |-> JSUndefined, password |-> JSUndefined,
     status |-> 0, code |-> "", role |-> JSUndefined, name |-> JSUndefined,
     token |-> ""]

\* The request bodies the clients send.
NameInputs == {JSUndefined, Str("Ana")}
EmailInputs == {Str(""), Str("ana@example.com")}
MessageInputs == {JSUndefined, Str(""), Str("Salut")}

\* The process as it starts: one of the two server modules is about to be
\* loaded in one of the environments, and nothing has happened yet.
Loading(variants, environments) ==
    /\ variant \in variants
    /\ env \in environments
    /\ proc = "loading"
    /\ exitCode = -1
    /\ clock = ClockStart
    /\ messagesStorage = <<>>
    /\ dbMessages = <<>>
    /\ inflight = <<>>
    /\ last = NoRequest
    /\ answered = 0
    /\ posted = <<>>
    /\ lastLogin = NoLogin
    /\ sockets = [s \in Sessions |-> NoSocket]
    /\ broadcast = NoBroadcast
    /\ event = NoEvent
    /\ signals = <<>>
    /\ closing = FALSE
    /\ conns = 0
    /\ timers = {}
    /\ overlapped = FALSE
    /\ unhandled = NoRejection

Init == Loading({"mock", "hybrid"}, Environments)

\* ---------------------------------------------------------------- startup

\* config/supabase.js, loaded by the hybrid server's require: it ends the
\* process when either required setting is missing.
LoadSupabaseConfig ==
    /\ variant = "hybrid"
    /\ proc = "loading"
    /\ IF ~env.url \/ ~env.key
         THEN proc' = "exited" /\ exitCode' = 1
         ELSE proc' = "configLoaded" /\ exitCode' = exitCode
    /\ UNCHANGED <<variant, env, clock, messagesStorage, dbMessages,
                   inflight, last, answered, posted, lastLogin>>
    /\ UNCHANGED <<ioVars, lifeVars>>
    /\ UNCHANGED <<overlapped, unhandled>>

\* The hybrid server module: seeds messagesStorage and listens.
StartHybridServer(later) ==
    /\ variant = "hybrid"
    /\ proc = "configLoaded"
    /\ proc' = "running"
    /\ messagesStorage' = Fixtures(clock, later)
    /\ clock' = later
    /\ UNCHANGED <<variant, env, exitCode, dbMessages,
                   inflight, last, answered, posted, lastLogin>>
    /\ UNCHANGED <<ioVars, lifeVars>>
    /\ UNCHANGED <<overlapped, unhandled>>

\* The mock server module: it loads no config and keeps no storage.
StartMockServer ==
    /\ variant = "mock"
    /\ proc = "loading"
    /\ proc' = "running"
    /\ UNCHANGED <<variant, env, exitCode, clock, messagesStorage, dbMessages,
                   inflight, last, answered, posted, lastLogin>>
    /\ UNCHANGED <<ioVars, lifeVars>>
    /\ UNCHANGED <<overlapped, unhandled>>

\* A millisecond passes while the server runs (startup takes no time).
Tick ==
    /\ proc = "running"
    /\ clock < ClockStart + MaxTicks
    /\ clock' = clock + 1
    /\ UNCHANGED <<variant, env, proc, exitCode, messagesStorage, dbMessages,
                   inflight, last, answered, posted, lastLogin>>
    /\ UNCHANGED <<ioVars, lifeVars>>
    /\ UNCHANGED <<overlapped, unhandled>>

\* What a second read of the clock in one synchronous run can give: the
\* same millisecond or the next.
LaterReads(now) == {t \in {now, now + 1} : t <= ClockStart + MaxTicks}

\* ------------------------------------------------------------- responses

Received(kind, name, email, message) ==
    [NoRequest EXCEPT !.kind = kind, !.name = name,
                      !.email = email, !.message = message]

\* res.status(400).json({error, code: 'VALIDATION_ERROR'})
ValidationError(r) ==
    [r EXCEPT !.pc = "done", !.status = 400, !.code = "VALIDATION_ERROR",
              !.text = "Missing required fields"]

\* res.status(201).json({message: text, data})
Created(r, text, data) ==
    [r EXCEPT !.pc = "done", !.status = 201, !.text = text, !.data = data]

\* res.json({messages, status: 'OK', message: text})
Fetched(r, text, messages) ==
    [r EXCEPT !.pc = "done", !.status = 200, !.code = "OK", !.text = text,
              !.messages = messages]

\* The number of handlers suspended at an await.
Suspended == Len(inflight)

\* The number of requests received so far.
Served == answered + Suspended

\* The ghost list of records returned by 201 while the database pair is unset.
Posted(r) ==
    IF ~DbConfigured(env) /\ r.status = 201 THEN Append(posted, r.data)
    ELSE posted

\* ---------------------------------------------------------- email service

\* this.adminEmail: process.env.ADMIN_EMAIL || 'romanetflavia@gmail.com'
AdminEmail(e) ==
    IF e.adminEmail # "" THEN e.adminEmail ELSE "romanetflavia@gmail.com"

\* Date.prototype.toLocaleString('ro-RO') in UTC: it has a resolution of one
\* second, so every instant below 1000 ms renders alike.
ToLocaleString(t) == "01.01.1970, 00:00:00"

\* The subject and the HTML body sendNewMessageNotification renders: the
\* sender's name, email and message interpolated verbatim.
NotificationSubject(name) == <<"Mesaj nou de la ", name.v, " - Sales Resolve">>
NotificationHtml(name, email, message, now) ==
    <<"Nume:", name.v, "Email:", email.v, "Data:", ToLocaleString(now),
      "Mesaj:", message.v>>

\* LogRow that stamps sent_at whatever the status.
LogRow_AlwaysStamped(to, subject, body, status, now) ==
    [to_email |-> to, subject |-> subject, body |-> body, status |-> status,
     sent_at |-> [null |-> FALSE, iso |-> ToISOString(now)]]

\* The row logEmail inserts into email_notifications.
LogRow(to, subject, body, status, now) ==
    [to_email |-> to, subject |-> subject, body |-> body, status |-> status,
     sent_at |-> IF status = "sent"
                   THEN [null |-> FALSE, iso |-> ToISOString(now)]
                   ELSE [null |-> TRUE, iso |-> NoText]]

\* What sendEmail does with the provider: without the credential it returns
\* the "not configured" failure; a provider call that returns is logged as
\* sent and sendEmail returns success; one that raises is caught and logged
\* as failed, and sendEmail then returns {success: false, error:
\* error.message}. "throws" is the rejection whose reason is null or
\* undefined: it is caught and logged as failed like any other, and the
\* read of error.message then throws out of the catch, so that sendEmail
\* rejects.
SendEmailOutcome(configured, p) ==
    IF ~configured THEN "notConfigured"
    ELSE IF p = "ok" THEN "sent"
    ELSE IF MessageReadThrows(p) THEN "throws"
    ELSE "failed"

\* The status sendEmail passes to logEmail: 'sent' after the provider call
\* returned, 'failed' from the catch.
LogStatus(out) == IF out = "sent" THEN "sent" ELSE "failed"

\* The outcomes of the awaited insert of logEmail: {error: null}, {error}
\* or a rejection.
LogOutcomes == {"ok", "error", "raise"}

\* ------------------------------------------------------------ mock server

\* GET /api/messages of the mock server: two records built on every call.
MockGetMessages(later) ==
    /\ variant = "mock"
    /\ proc = "running"
    /\ Served < MaxReq
    /\ answered' = answered + 1
    /\ last' = Fetched(Received("get", JSUndefined, JSUndefined, JSUndefined),
                       "Messages fetched successfully (mock data)",
                       MockMessages(clock, later))
    /\ clock' = later
    /\ UNCHANGED <<variant, env, proc, exitCode, messagesStorage,
                   dbMessages, inflight, posted, lastLogin>>
    /\ UNCHANGED <<ioVars, lifeVars>>
    /\ UNCHANGED <<overlapped, unhandled>>

\* POST /api/messages of the mock server: validates, builds the record and
\* returns it without storing it.
MockPostMessages(name, email, message, later) ==
    /\ variant = "mock"
    /\ proc = "running"
    /\ Served < MaxReq
    /\ answered' = answered + 1
    /\ MissingRequiredFields(name, email, message) => later = clock
    /\ LET r == Received("post", name, email, message)
           newMessage == NewMessage(name, email, message, clock, later)
           done == IF MissingRequiredFields(name, email, message)
                     THEN ValidationError(r)
                     ELSE Created([r EXCEPT !.newMessage = newMessage],
                                  "Message sent successfully (mock storage)",
                                  newMessage)
       IN /\ last' = done
          /\ posted' = Posted(done)
    /\ clock' = later
    /\ UNCHANGED <<variant, env, proc, exitCode, messagesStorage,
                   dbMessages, inflight, lastLogin>>
    /\ UNCHANGED <<ioVars, lifeVars>>
    /\ UNCHANGED <<overlapped, unhandled>>

\* ---------------------------------------------------------- hybrid server

\* The list of suspended handlers with one more, with handler i replaced
\* and with handler i gone.
Suspend(r) == Append(inflight, r)
Resume(i, r) == [inflight EXCEPT ![i] = r]
Finish(i) == SubSeq(inflight, 1, i - 1) \o SubSeq(inflight, i + 1, Len(inflight))


\* if (!error && savedMessage) of the POST handler.
InsertSucceeded(o) == ~HasError(o) /\ HasData(o)

\* QuerySucceeded without the check of messages.
QuerySucceeded_NoDataCheck(o) == ~HasError(o)

\* if (!error && messages) of the GET handler.
QuerySucceeded(o) == ~HasError(o) /\ HasData(o)

\* Push that puts the record first.
Push_Unshift(list, record) == <<record>> \o list

\* Array.prototype.push: the record goes last.
Push(list, record) == Append(list, record)

\* The fallback of the POST handler: messagesStorage.push(newMessage) and
\* the 201 that returns newMessage.
StoredInMemory(r) ==
    Created([r EXCEPT !.pushes = @ + 1],
            "Message sent successfully (stored in memory)", r.newMessage)

\* The 201 of the POST handler that returns the database record.
StoredInDatabase(r) == Created(r, "Message sent successfully", r.saved)

\* The fallback of the GET handler: the whole in-memory list.
FetchedFromMemory(r) ==
    Fetched(r, "Messages fetched from memory successfully", messagesStorage)

\* The GET handler's answer from the database.
FetchedFromDatabase(r) ==
    Fetched(r, "Messages fetched from Supabase successfully",
            SelectOrderDesc(dbMessages))

\* POST /api/messages up to its first await: validation, newMessage, then
\* the insert when the pair is set, the fallback otherwise.
PostMessages(name, email, message, later) ==
    /\ variant = "hybrid"
    /\ proc = "running"
    /\ ~unhandled.pending
    /\ Served < MaxReq
    /\ Len(inflight) < MaxInflight
    /\ MissingRequiredFields(name, email, message) => later = clock
    /\ clock' = later
    /\ LET r == Received("post", name, email, message)
           r1 == [r EXCEPT !.newMessage =
                      NewMessage(name, email, message, clock, later)]
       IN IF MissingRequiredFields(name, email, message)
            THEN /\ last' = ValidationError(r)
                 /\ answered' = answered + 1
                 /\ UNCHANGED <<messagesStorage, inflight, posted>>
          ELSE IF DbConfigured(env)
            THEN /\ inflight' = Suspend(
                        [r1 EXCEPT !.pc = "insert", !.dbCalls = @ + 1])
                 /\ UNCHANGED <<messagesStorage, last, answered, posted>>
          ELSE /\ messagesStorage' = Push(messagesStorage, r1.newMessage)
               /\ last' = StoredInMemory(r1)
               /\ answered' = answered + 1
               /\ posted' = Posted(StoredInMemory(r1))
               /\ UNCHANGED inflight
    /\ UNCHANGED <<variant, env, proc, exitCode, dbMessages, lastLogin>>
    /\ UNCHANGED <<ioVars, lifeVars>>
    /\ overlapped' =
         (overlapped \/ (/\ ~MissingRequiredFields(name, email, message)
                         /\ \E i \in 1..Len(inflight) :
                               inflight[i].kind = "post"))
    /\ UNCHANGED unhandled

\* The POST handler left by an exception thrown in its catch: nothing is
\* pushed and no response is written.
Thrown(r) == [r EXCEPT !.pc = "thrown"]

\* Node acts on the rejected handler promises. Express does not observe
\* the promise of an async handler, so its rejection is unhandled; Node
\* deals with it once the microtask queue has drained, after the
\* continuations of the other requests whose awaited promise has settled
\* in the same turn of the event loop and before the next request comes in.
\* Depending on its version and its --unhandled-rejections mode, which do
\* not change while the process runs, it ends the process with code 1 or
\* warns and carries on.
UnhandledRejection(crash) ==
    /\ proc = "running"
    /\ unhandled.pending
    /\ crash => ~unhandled.warned
    /\ proc' = IF crash THEN "exited" ELSE proc
    /\ exitCode' = IF crash THEN 1 ELSE exitCode
    /\ unhandled' = [pending |-> FALSE, warned |-> ~crash]
    /\ UNCHANGED <<variant, env, clock, messagesStorage, dbMessages, inflight,
                   last, answered, posted, lastLogin>>
    /\ UNCHANGED <<ioVars, lifeVars>>
    /\ UNCHANGED overlapped

\* The insert of a suspended POST resolves or rejects. On success the
\* notification is sent: without the provider credential sendEmail returns
\* at once and the handler stays suspended at its await of the
\* notification; otherwise sendEmail suspends at the provider call. A
\* rejection enters the catch, which logs error.message and falls through
\* to the fallback; when the reason is null or undefined that read throws,
\* and the handler ends before the push and the response, its promise
\* rejected.
InsertResolves(s, o) ==
    /\ proc = "running"
    /\ s \in 1..Len(inflight)
    /\ inflight[s].pc = "insert"
    /\ LET r == [inflight[s] EXCEPT !.outcome = o]
           row == DbRow(Len(dbMessages) + 1, r.name, r.email, r.message)
           r2 == [r EXCEPT !.saved = row, !.notifications = @ + 1]
       IN IF ~Raises(o) /\ InsertSucceeded(o)
            THEN /\ dbMessages' = IF HasData(o) THEN Append(dbMessages, row)
                                  ELSE dbMessages
                 /\ inflight' =
                      IF SendEmailOutcome(env.resend, "none") = "notConfigured"
                        THEN Resume(s, [r2 EXCEPT !.pc = "notified"])
                        ELSE Resume(s, [r2 EXCEPT !.pc = "send",
                                                  !.providerCalls = @ + 1])
                 /\ UNCHANGED <<last, answered>>
                 /\ UNCHANGED <<messagesStorage, unhandled>>
          ELSE IF Raises(o) /\ MessageReadThrows(o)
            THEN /\ last' = Thrown(r)
                 /\ answered' = answered + 1
                 /\ inflight' = Finish(s)
                 /\ unhandled' = [unhandled EXCEPT !.pending = TRUE]
                 /\ UNCHANGED <<messagesStorage, dbMessages>>
          ELSE /\ messagesStorage' = Push(messagesStorage, r.newMessage)
               /\ last' = StoredInMemory(r)
               /\ answered' = answered + 1
               /\ inflight' = Finish(s)
               /\ UNCHANGED <<dbMessages, unhandled>>
    /\ UNCHANGED <<variant, env, proc, exitCode, clock, posted, lastLogin>>
    /\ UNCHANGED <<ioVars, lifeVars>>
    /\ UNCHANGED overlapped

\* The provider call of a suspended sendEmail returns or raises. sendEmail
\* then calls logEmail, with 'sent' after the call returned and with
\* 'failed' from its catch, and logEmail suspends at its insert.
SendResolves(s, p) ==
    /\ proc = "running"
    /\ s \in 1..Len(inflight)
    /\ inflight[s].pc = "send"
    /\ LET r == [inflight[s] EXCEPT !.provider = p]
           out == SendEmailOutcome(env.resend, p)
           row == LogRow(AdminEmail(env), NotificationSubject(r.name),
                         NotificationHtml(r.name, r.email, r.message, clock),
                         LogStatus(out), clock)
       IN inflight' = Resume(s,
              [r EXCEPT !.pc = "log", !.logWrites = Append(@, row)])
    /\ UNCHANGED <<variant, env, proc, exitCode, clock, messagesStorage,
                   dbMessages, last, answered, posted, lastLogin>>
    /\ UNCHANGED <<ioVars, lifeVars>>
    /\ UNCHANGED <<overlapped, unhandled>>

\* What logEmail makes of its insert: the row is stored, or the failure,
\* returned or raised, is reported to the console.
LogSettled(o) == IF o = "ok" THEN "ok" ELSE "failed"

\* The insert of a suspended logEmail resolves or rejects: the row is
\* stored when it resolves without an error, and a failure is reported to
\* the console only. logEmail then returns, sendEmail returns or throws,
\* and the notification settles likewise, while the POST handler stays
\* suspended at its await of the notification.
LogResolves(s, o) ==
    /\ proc = "running"
    /\ s \in 1..Len(inflight)
    /\ inflight[s].pc = "log"
    /\ LET r == [inflight[s] EXCEPT !.log = LogSettled(o)]
           row == r.logWrites[Len(r.logWrites)]
       IN inflight' = Resume(s,
              [r EXCEPT !.pc = "notified",
                        !.logStored = IF o = "ok" THEN Append(@, row) ELSE @])
    /\ UNCHANGED <<variant, env, proc, exitCode, clock, messagesStorage,
                   dbMessages, last, answered, posted, lastLogin>>
    /\ UNCHANGED <<ioVars, lifeVars>>
    /\ UNCHANGED <<overlapped, unhandled>>

\* The notification's promise has settled and the POST handler resumes
\* from its await. When the notification returned, whatever its result,
\* the handler answers with the database record. When it rejected, with
\* the TypeError thrown in sendEmail's catch, the handler's own catch logs
\* that error's message and the handler falls through to the fallback: it
\* pushes newMessage and answers from memory, the row having been inserted.
NotificationReturns(s) ==
    /\ proc = "running"
    /\ s \in 1..Len(inflight)
    /\ inflight[s].pc = "notified"
    /\ LET r == inflight[s]
       IN IF SendEmailOutcome(env.resend, r.provider) = "throws"
            THEN /\ messagesStorage' = Push(messagesStorage, r.newMessage)
                 /\ last' = StoredInMemory(r)
            ELSE /\ last' = StoredInDatabase(r)
                 /\ UNCHANGED messagesStorage
    /\ answered' = answered + 1
    /\ inflight' = Finish(s)
    /\ UNCHANGED <<variant, env, proc, exitCode, clock, dbMessages, posted,
                   lastLogin>>
    /\ UNCHANGED <<ioVars, lifeVars>>
    /\ UNCHANGED <<overlapped, unhandled>>

\* GET /api/messages up to its first await: the query when the pair is set,
\* the in-memory list otherwise.
GetMessages ==
    /\ variant = "hybrid"
    /\ proc = "running"
    /\ ~unhandled.pending
    /\ Served < MaxReq
    /\ Len(inflight) < MaxInflight
    /\ LET r == Received("get", JSUndefined, JSUndefined, JSUndefined)
       IN IF DbConfigured(env)
            THEN /\ inflight' = Suspend(
                        [r EXCEPT !.pc = "query", !.dbCalls = @ + 1])
                 /\ UNCHANGED <<last, answered>>
            ELSE /\ last' = FetchedFromMemory(r)
                 /\ answered' = answered + 1
                 /\ inflight' = inflight
    /\ UNCHANGED <<variant, env, proc, exitCode, clock, messagesStorage,
                   dbMessages, posted, lastLogin>>
    /\ UNCHANGED <<ioVars, lifeVars>>
    /\ UNCHANGED <<overlapped, unhandled>>

\* The query of a suspended GET resolves or rejects.
QueryResolves(s, o) ==
    /\ proc = "running"
    /\ s \in 1..Len(inflight)
    /\ inflight[s].pc = "query"
    /\ LET r == [inflight[s] EXCEPT !.outcome = o]
       IN last' = IF ~Raises(o) /\ QuerySucceeded(o)
                    THEN FetchedFromDatabase(r)
                    ELSE FetchedFromMemory(r)
    /\ answered' = answered + 1
    /\ inflight' = Finish(s)
    /\ UNCHANGED <<variant, env, proc, exitCode, clock, messagesStorage,
                   dbMessages, posted, lastLogin>>
    /\ UNCHANGED <<ioVars, lifeVars>>
    /\ UNCHANGED <<overlapped, unhandled>>

\* ----------------------------------------------------------- specification

Next ==
    \/ LoadSupabaseConfig
    \/ \E t \in LaterReads(clock) : StartHybridServer(t)
    \/ StartMockServer
    \/ Tick
    \/ \E t \in LaterReads(clock) : MockGetMessages(t)
    \/ \E n \in NameInputs, e \in EmailInputs, m \in MessageInputs :
           \E t \in LaterReads(clock) : MockPostMessages(n, e, m, t)
    \/ \E n \in NameInputs, e \in EmailInputs, m \in MessageInputs :
           \E t \in LaterReads(clock) : PostMessages(n, e, m, t)
    \/ \E s \in Slots, o \in InsertOutcomes : InsertResolves(s, o)
    \/ \E crash \in BOOLEAN : UnhandledRejection(crash)
    \/ \E s \in Slots, p \in ProviderOutcomes : SendResolves(s, p)
    \/ \E s \in Slots, o \in LogOutcomes : LogResolves(s, o)
    \/ \E s \in Slots : NotificationReturns(s)
    \/ GetMessages
    \/ \E s \in Slots, o \in DbOutcomes : QueryResolves(s, o)

Spec == Init /\ [][Next]_vars

\* The hybrid server in the environments that name the administrator's
\* address, where the notification goes to that address.
InitEmail == Loading({"hybrid"}, AdminEnvironments)

NextEmail ==
    \/ LoadSupabaseConfig
    \/ \E t \in LaterReads(clock) : StartHybridServer(t)
    \/ Tick
    \/ \E n \in NameInputs, e \in EmailInputs, m \in MessageInputs :
           \E t \in LaterReads(clock) : PostMessages(n, e, m, t)
    \/ \E s \in Slots, o \in InsertOutcomes : InsertResolves(s, o)
    \/ \E crash \in BOOLEAN : UnhandledRejection(crash)
    \/ \E s \in Slots, p \in ProviderOutcomes : SendResolves(s, p)
    \/ \E s \in Slots, o \in LogOutcomes : LogResolves(s, o)
    \/ \E s \in Slots : NotificationReturns(s)
    \/ GetMessages
    \/ \E s \in Slots, o \in DbOutcomes : QueryResolves(s, o)

SpecEmail == InitEmail /\ [][NextEmail]_vars

\* ------------------------------------------------------------------ login

\* The own keys of the users table of the login handler.
UserEmails ==
    {"romanetflavia@gmail.com", "alex@salesresolve.com",
     "adrian@salesresolve.com"}
UserRole(key) == IF key = "romanetflavia@gmail.com" THEN "admin" ELSE "team"
UserPassword(key) ==
    IF key = "romanetflavia@gmail.com" THEN "admin123" ELSE "team123"

\* Property names every object literal inherits from Object.prototype.
InheritedKeys ==
    {"constructor", "__proto__", "toString", "valueOf", "hasOwnProperty",
     "isPrototypeOf", "propertyIsEnumerable", "toLocaleString",
     "__defineGetter__", "__defineSetter__", "__lookupGetter__",
     "__lookupSetter__"}

\* ToPropertyKey of the value used as the index of users[email]: a string
\* is itself, a one-element array is its element's string, undefined is
\* the string "undefined".
ToPropertyKey(x) ==
    IF x.t = "string" \/ x.t = "array" THEN x.v ELSE x.t

\* users[email]: the entry of an own key, the inherited function or object
\* of an inherited key (truthy, with no role and no password of its own),
\* undefined otherwise.
UsersLookup(x) ==
    LET key == ToPropertyKey(x)
    IN IF key \in UserEmails
         THEN [truthy |-> TRUE, role |-> Str(UserRole(key)),
               password |-> Str(UserPassword(key))]
       ELSE IF key \in InheritedKeys
         THEN [truthy |-> TRUE, role |-> JSUndefined, password |-> JSUndefined]
       ELSE [truthy |-> FALSE, role |-> JSUndefined, password |-> JSUndefined]

\* users[email] && users[email].password === password
CredentialsMatch(email, password) ==
    /\ UsersLookup(email).truthy
    /\ UsersLookup(email).password = password

\* email.split('@')[0] of the strings the model sends.
SplitAt0(v) ==
    CASE v = "romanetflavia@gmail.com" -> "romanetflavia"
      [] v = "alex@salesresolve.com" -> "alex"
      [] v = "adrian@salesresolve.com" -> "adrian"
      [] v = "nobody@example.com" -> "nobody"
      [] OTHER -> v

\* The login bodies the clients send.
LoginEmails ==
    {JSUndefined, Str("romanetflavia@gmail.com"), Str("alex@salesresolve.com"),
     Str("adrian@salesresolve.com"), Str("nobody@example.com"),
     Str("constructor"), Str("__proto__"), Arr1("romanetflavia@gmail.com")}
LoginPasswords ==
    {JSUndefined, Str(""), Str("admin123"), Str("team123"), Str("parola")}

\* POST /api/auth/login (the same handler in both servers). email.split of
\* a value that is no string throws a TypeError, which Express hands to the
\* error middleware: 500 INTERNAL_ERROR.
Login(email, password) ==
    /\ proc = "running"
    /\ lastLogin.seq < MaxLogins
    /\ LET r == [NoLogin EXCEPT !.seq = lastLogin.seq + 1, !.email = email,
                                !.password = password]
       IN lastLogin' =
            IF CredentialsMatch(email, password)
              THEN IF email.t = "string"
                     THEN [r EXCEPT !.status = 200,
                                    !.role = UsersLookup(email).role,
                                    !.name = Str(SplitAt0(email.v)),
                                    !.token = "mock-jwt-token"]
                     ELSE [r EXCEPT !.status = 500, !.code = "INTERNAL_ERROR"]
              ELSE [r EXCEPT !.status = 401, !.code = "AUTH_ERROR"]
    /\ UNCHANGED <<variant, env, proc, exitCode, clock, messagesStorage,
                   dbMessages, inflight, last, answered, posted>>
    /\ UNCHANGED <<ioVars, lifeVars>>
    /\ UNCHANGED <<overlapped, unhandled>>

\* The login handler shares no state with the message handlers: it is
\* checked in a specification of its own.
NextAuth ==
    \/ LoadSupabaseConfig
    \/ \E t \in LaterReads(clock) : StartHybridServer(t)
    \/ StartMockServer
    \/ \E e \in LoginEmails, p \in LoginPasswords : Login(e, p)

SpecAuth == Init /\ [][NextAuth]_vars

\* ----------------------------------------------------------- socket layer

\* Everything the socket handlers and the shutdown code leave alone.
httpVars ==
    <<variant, env, proc, exitCode, clock, messagesStorage, dbMessages,
      inflight, last, answered, posted, lastLogin>>

\* What join-room events carry.  A caller may name any room, a client room
\* included.
RoomIdInputs == {<<"team">>, ClientRoom(Str("u1"))}
UserIdInputs == {JSUndefined, Str("u1"), Str("u2")}
UserRoleInputs == {Str("client"), Str("team")}

\* What new-message events carry: a message with or without a timestamp
\* of the sender's own.
MessageObjects ==
    {[text |-> "Buna", timestamp |-> NoText],
     [text |-> "Buna", timestamp |-> <<"2020-01-01T00:00:00.000Z">>]}

\* The sessions whose sockets are connected.
Connected == {s \in Sessions : sockets[s].status = "connected"}

\* The rooms a new-message event can name: the rooms of join-room and the
\* sockets' own.
RoomsNamed ==
    RoomIdInputs \cup {ClientRoom(u) : u \in UserIdInputs}
        \cup {SocketId(s) : s \in Sessions}

JoinedRoom_AnyRole(roomId, userId, userRole) == roomId

\* The room a join-room event joins: the client room of the event's userId
\* for role 'client', the room the event names otherwise.
JoinedRoom(roomId, userId, userRole) ==
    IF userRole = Str("client") THEN ClientRoom(userId) ELSE roomId

To_Everyone(socks, roomId) ==
    {s \in Sessions : socks[s].status = "connected"}

\* io.to(roomId): the sockets that are in the room, the sender's included.
To(socks, roomId) ==
    {s \in Sessions :
        socks[s].status = "connected" /\ roomId \in socks[s].rooms}

MessageReceived_NoTimestamp(message, now) == message

\* The message-received payload: the message's fields, then the server's
\* timestamp, which replaces a timestamp of the message's own.
MessageReceived(message, now) ==
    [message EXCEPT !.timestamp = ToISOString(now)]

\* The connection handler's bookkeeping of one handled event.
Handled(name, s, roomId, userId, userRole) ==
    [n |-> event.n + 1, name |-> name, from |-> s, roomId |-> roomId,
     userId |-> userId, userRole |-> userRole]

\* io.on('connection'): a socket connects and is in the room of its id.
Connect(s) ==
    /\ proc = "running"
    /\ event.n < MaxEvents
    /\ sockets[s].status = "idle"
    /\ sockets' = [sockets EXCEPT ![s].status = "connected",
                                  ![s].rooms = {SocketId(s)}]
    /\ event' = Handled("connection", s, NoText, JSUndefined, JSUndefined)
    /\ UNCHANGED <<httpVars, broadcast, lifeVars>>
    /\ UNCHANGED <<overlapped, unhandled>>

\* socket.on('join-room').
OnJoinRoom(s, roomId, userId, userRole) ==
    /\ proc = "running"
    /\ event.n < MaxEvents
    /\ sockets[s].status = "connected"
    /\ sockets' =
         [sockets EXCEPT
            ![s].rooms = @ \cup {JoinedRoom(roomId, userId, userRole)},
            ![s].onlyClient = @ /\ userRole = Str("client"),
            ![s].sentUserIds = @ \cup {userId},
            ![s].sentRoomIds = @ \cup {roomId}]
    /\ event' = Handled("join-room", s, roomId, userId, userRole)
    /\ UNCHANGED <<httpVars, broadcast, lifeVars>>
    /\ UNCHANGED <<overlapped, unhandled>>

\* socket.on('new-message').
OnNewMessage(s, roomId, message) ==
    /\ proc = "running"
    /\ event.n < MaxEvents
    /\ sockets[s].status = "connected"
    /\ broadcast' = [roomId |-> roomId,
                     submitted |-> message,
                     payload |-> MessageReceived(message, clock),
                     to |-> To(sockets, roomId)]
    /\ event' = Handled("new-message", s, roomId, JSUndefined, JSUndefined)
    /\ UNCHANGED <<httpVars, sockets, lifeVars>>
    /\ UNCHANGED <<overlapped, unhandled>>

\* socket.on('disconnect'): the socket has left its rooms.
OnDisconnect(s) ==
    /\ proc = "running"
    /\ event.n < MaxEvents
    /\ sockets[s].status = "connected"
    /\ sockets' = [sockets EXCEPT ![s].status = "closed", ![s].rooms = {}]
    /\ event' = Handled("disconnect", s, NoText, JSUndefined, JSUndefined)
    /\ UNCHANGED <<httpVars, broadcast, lifeVars>>
    /\ UNCHANGED <<overlapped, unhandled>>

\* Either server once it listens, with every setting present.
InitIo ==
    /\ variant \in {"mock", "hybrid"}
    /\ env = [url |-> TRUE, key |-> TRUE, resend |-> TRUE,
              adminEmail |-> ""]
    /\ proc = "running"
    /\ exitCode = -1
    /\ clock \in IF variant = "hybrid" THEN LaterReads(ClockStart)
                 ELSE {ClockStart}
    /\ messagesStorage =
         IF variant = "hybrid" THEN Fixtures(ClockStart, clock) ELSE <<>>
    /\ dbMessages = <<>>
    /\ inflight = <<>>
    /\ last = NoRequest
    /\ answered = 0
    /\ posted = <<>>
    /\ lastLogin = NoLogin
    /\ sockets = [s \in Sessions |-> NoSocket]
    /\ broadcast = NoBroadcast
    /\ event = NoEvent
    /\ signals = <<>>
    /\ closing = FALSE
    /\ conns = 0
    /\ timers = {}
    /\ overlapped = FALSE
    /\ unhandled = NoRejection

\* The socket handlers share no state with the HTTP handlers: they are
\* checked in a specification of their own, from the moment the server
\* listens.
NextIo ==
    \/ Tick
    \/ \E s \in Sessions : Connect(s)
    \/ \E s \in Sessions, r \in RoomIdInputs, u \in UserIdInputs,
          role \in UserRoleInputs : OnJoinRoom(s, r, u, role)
    \/ \E s \in Sessions, r \in RoomsNamed, m \in MessageObjects :
          OnNewMessage(s, r, m)
    \/ \E s \in Sessions : OnDisconnect(s)

SpecIo == InitIo /\ [][NextIo]_vars

\* ------------------------------------------------------ process lifecycle

\* The grace period of the forced exit, in milliseconds.
ForcedExitDelay == 10000

\* The signals with a handler.
TerminationSignals == {"SIGTERM", "SIGINT"}

TimersAfterShutdown_NoTimer(pending, now) == pending

\* gracefulShutdown's setTimeout: one more forced-exit timer, due a grace
\* period from now.
TimersAfterShutdown(pending, now) == pending \cup {now + ForcedExitDelay}

\* The pending timer that is due first.
NextDue(pending) == CHOOSE t \in pending : \A u \in pending : t <= u

\* A client connects to the HTTP server; a closing server accepts none.
ConnectionOpens ==
    /\ proc = "running"
    /\ ~closing
    /\ conns < MaxConns
    /\ conns' = conns + 1
    /\ UNCHANGED <<httpVars, ioVars, signals, closing, timers>>
    /\ UNCHANGED <<overlapped, unhandled>>

\* A client ends its connection; nothing makes it do so.
ConnectionCloses ==
    /\ proc = "running"
    /\ conns > 0
    /\ conns' = conns - 1
    /\ UNCHANGED <<httpVars, ioVars, signals, closing, timers>>
    /\ UNCHANGED <<overlapped, unhandled>>

\* process.on(signal): gracefulShutdown stops the server accepting
\* connections and starts a forced-exit timer, at every signal.
GracefulShutdown(signal) ==
    /\ proc = "running"
    /\ Len(signals) < MaxSignals
    /\ signals' = Append(signals, signal)
    /\ closing' = TRUE
    /\ timers' = TimersAfterShutdown(timers, clock)
    /\ UNCHANGED <<httpVars, ioVars, conns>>
    /\ UNCHANGED <<overlapped, unhandled>>

\* server.close's callback: the server has closed, which it does once no
\* connection is left.
ServerClosed ==
    /\ proc = "running"
    /\ closing
    /\ conns = 0
    /\ proc' = "exited"
    /\ exitCode' = 0
    /\ UNCHANGED <<variant, env, clock, messagesStorage, dbMessages,
                   inflight, last, answered, posted, lastLogin>>
    /\ UNCHANGED <<ioVars, lifeVars>>
    /\ UNCHANGED <<overlapped, unhandled>>

\* The forced-exit timer's callback, when the grace period has passed.
ForcedExit ==
    /\ proc = "running"
    /\ timers # {}
    /\ clock' = NextDue(timers)
    /\ proc' = "exited"
    /\ exitCode' = 1
    /\ UNCHANGED <<variant, env, messagesStorage, dbMessages,
                   inflight, last, answered, posted, lastLogin>>
    /\ UNCHANGED <<ioVars, lifeVars>>
    /\ UNCHANGED <<overlapped, unhandled>>

NextShutdown ==
    \/ LoadSupabaseConfig
    \/ \E t \in LaterReads(clock) : StartHybridServer(t)
    \/ StartMockServer
    \/ Tick
    \/ ConnectionOpens
    \/ ConnectionCloses
    \/ \E signal \in TerminationSignals : GracefulShutdown(signal)
    \/ ServerClosed
    \/ ForcedExit

\* The event loop runs a callback that is due: a pending timer fires and
\* the close callback runs once the server has closed.  Nothing obliges a
\* client to end its connection.
SpecShutdown ==
    /\ Init
    /\ [][NextShutdown]_vars
    /\ WF_vars(ServerClosed)
    /\ WF_vars(ForcedExit)

\* ----------------------------------------------------------------- claims

\* The handlers that have acted: the one answered last and the suspended.
Handlers == {last} \cup {inflight[i] : i \in 1..Len(inflight)}

\* A request ends in this step: it is answered, or an exception leaves its
\* handler.
Answers == answered' = answered + 1

IsDbId(id) == Len(id) > 0 /\ id[1] = "uuid-"

\* A field of a request body is present: a non-empty string.
Present(x) == x.t = "string" /\ x.v # ""

\* C1: every POST /api/messages whose name, email and message are all
\* truthy is answered 201 with a record whose name, email and message are
\* the request's, whatever the database and the email provider did. It
\* fails for the insert that rejects with null or undefined: the catch of
\* the handler throws on error.message, and the request ends with no
\* response and nothing stored.
C1_ValidPostEchoesInput ==
    (/\ last.kind = "post"
     /\ Present(last.name) /\ Present(last.email) /\ Present(last.message))
    => /\ last.status = 201
       /\ last.data.name = last.name
       /\ last.data.email = last.email
       /\ last.data.message = last.message

\* C2: a POST /api/messages with a missing field is answered 400
\* VALIDATION_ERROR in one step that leaves the in-memory list and the
\* database untouched, attempts no insert and sends no notification.
C2_InvalidPostHasNoEffect ==
    [][(/\ Answers
        /\ last'.kind = "post"
        /\ ~(Present(last'.name) /\ Present(last'.email)
                                   /\ Present(last'.message)))
       => /\ last'.status = 400
          /\ last'.code = "VALIDATION_ERROR"
          /\ last'.dbCalls = 0
          /\ last'.notifications = 0
          /\ last'.pushes = 0
          /\ UNCHANGED <<messagesStorage, dbMessages, inflight>>]_vars

\* The hybrid server has rejected a POST whose message is missing.
C2_Witness ==
    /\ variant = "hybrid"
    /\ last.kind = "post"
    /\ last.name = Str("Ana")
    /\ last.email = Str("ana@example.com")
    /\ ~Present(last.message)
    /\ last.status = 400

\* C3: with the database pair unset the server runs, and a GET that follows
\* N successful POSTs returns the two fixtures followed by the N records
\* those POSTs returned, in that order.
C3_UnsetPairGetReturnsFixturesAndPosts ==
    ~DbConfigured(env)
    => /\ proc # "exited"
       /\ last.kind = "get"
          => /\ Len(last.messages) = 2 + Len(posted)
             /\ last.messages[1].id = <<"1">>
             /\ last.messages[2].id = <<"2">>
             /\ SubSeq(last.messages, 3, Len(last.messages)) = posted

\* C4: with a required database setting absent the config loader does not
\* stop the process.
C4_MissingSettingKeepsProcessAlive ==
    (variant = "hybrid" /\ ~DbConfigured(env))
    => (proc # "exited" /\ exitCode = -1)

\* C5: a login is answered 200 with the entry's role and the token
\* 'mock-jwt-token' exactly when email is one of the three table addresses
\* and password is that entry's password; every other login is answered
\* 401 AUTH_ERROR.
C5_LoginIffExactTableMatch ==
    lastLogin.seq > 0
    => IF /\ lastLogin.email.t = "string"
          /\ lastLogin.email.v \in UserEmails
          /\ lastLogin.password = Str(UserPassword(lastLogin.email.v))
         THEN /\ lastLogin.status = 200
              /\ lastLogin.role = Str(UserRole(lastLogin.email.v))
              /\ lastLogin.token = "mock-jwt-token"
         ELSE /\ lastLogin.status = 401
              /\ lastLogin.code = "AUTH_ERROR"

\* A request served by the in-memory fallback: it has pushed its record or
\* has been answered "(stored in memory)".
ServedFromMemory(r) ==
    r.pushes > 0 \/ r.text = "Message sent successfully (stored in memory)"

\* C6: sendNewMessageNotification is invoked once by a request whose insert
\* returned a record without an error, and never by any other request: not
\* before the insert resolves, not after a validation failure, and not by
\* a request served by the in-memory fallback. The last part fails with C7:
\* a notification that rejects sends its request, already notified, to
\* the fallback.
C6_NotificationOnlyAfterInsert ==
    \A r \in Handlers :
        /\ r.notifications =
             IF r.kind = "post" /\ r.outcome = "ok" THEN 1 ELSE 0
        /\ ServedFromMemory(r) => r.notifications = 0

\* C7: a POST whose insert succeeded is answered 201 with the record the
\* database returned and pushes nothing onto the in-memory list, whatever
\* the provider call and the email-log write did. It fails for the provider
\* call that rejects with null or undefined: the catch of sendEmail throws
\* on error.message after the 'failed' log write, the notification rejects,
\* and the handler's catch sends the request to the fallback.
C7_NotificationNeverFailsTheWrite ==
    /\ \A r \in Handlers :
           (r.kind = "post" /\ r.outcome = "ok") => r.pushes = 0
    /\ (last.kind = "post" /\ last.outcome = "ok")
       => /\ last.status = 201
          /\ last.text = "Message sent successfully"
          /\ last.data = last.saved
          /\ IsDbId(last.data.id)

\* The log writes a finished sendEmail call has issued, as C8 states them.
LogWritesAsStated(r, rows) ==
    IF ~env.resend
      THEN r.providerCalls = 0 /\ rows = <<>>
    ELSE IF r.provider = "ok"
      THEN /\ Len(rows) = 1
           /\ rows[1].status = "sent"
           /\ ~rows[1].sent_at.null
    ELSE /\ Len(rows) = 1
         /\ rows[1].status = "failed"
         /\ rows[1].sent_at.null

\* C8 as stated: a finished sendEmail call has left exactly the stated
\* records in the log table.
C8_SendEmailStoresStatedRecord ==
    (last.kind = "post" /\ last.notifications = 1)
    => LogWritesAsStated(last, last.logStored)

\* C8 as amended: a finished sendEmail call has issued exactly the stated
\* log write (none without the credential, one 'sent' row with a sent_at
\* after the provider call returned, one 'failed' row with a null sent_at
\* after it raised), and the log table holds that row exactly when the
\* write succeeded.
C8_SendEmailIssuesStatedWrite ==
    (last.kind = "post" /\ last.notifications = 1)
    => /\ LogWritesAsStated(last, last.logWrites)
       /\ last.logStored = IF last.log = "ok" THEN last.logWrites ELSE <<>>

\* A sendEmail call whose provider call raised and whose log write stored
\* the 'failed' row, addressed to the administrator the environment names.
C8_Witness ==
    /\ last.kind = "post"
    /\ last.provider = "raise"
    /\ last.log = "ok"
    /\ Len(last.logStored) = 1
    /\ last.logStored[1].to_email = env.adminEmail

\* C9: the hybrid GET /api/messages is answered 200; with the pair set and
\* a query that returned records without an error the payload is the
\* database rows, newest first, and holds no in-memory record; in every
\* other case it is the in-memory list as it stands.
C9_GetReturnsOneTier ==
    [][(Answers /\ last'.kind = "get" /\ variant = "hybrid")
       => /\ last'.status = 200
          /\ IF DbConfigured(env) /\ last'.outcome = "ok"
               THEN /\ Len(last'.messages) = Len(dbMessages)
                    /\ \A i \in 1..Len(dbMessages) :
                           last'.messages[i] =
                               dbMessages[Len(dbMessages) + 1 - i]
                    /\ \A i \in 1..Len(last'.messages) :
                       \A j \in 1..Len(messagesStorage) :
                           last'.messages[i] # messagesStorage[j]
               ELSE last'.messages = messagesStorage]_vars

\* A GET answered from the database while both tiers hold records.
C9_Witness ==
    /\ variant = "hybrid"
    /\ last.kind = "get"
    /\ last.outcome = "ok"
    /\ Len(last.messages) >= 1
    /\ Len(messagesStorage) >= 2

\* The response came from the fallback tier (or from the mock server, which
\* has no other tier).
FromFallback(r) ==
    r.text \in {"Messages fetched from memory successfully",
                "Messages fetched successfully (mock data)"}

\* C10: two GET /api/messages answered from the fallback with no request
\* answered in between carry the same payload, and the GET changes no
\* stored state.
C10_RepeatedGetIdentical ==
    [][(/\ Answers
        /\ last.kind = "get" /\ FromFallback(last)
        /\ last'.kind = "get" /\ FromFallback(last'))
       => /\ last'.messages = last.messages
          /\ UNCHANGED <<messagesStorage, dbMessages>>]_vars

\* A socket event is handled by this step.
Handles(name) == event'.n = event.n + 1 /\ event'.name = name

\* The client rooms of the userIds a session has sent.
ClientRoomsOf(sock) == {ClientRoom(u) : u \in sock.sentUserIds}

\* C11, as stated: a session whose join-room events all carry role
\* 'client' is a member only of the rooms client-U of the userIds U it
\* sent and never of a roomId it supplied, and each such join-room adds
\* the session to client-U and to no other room.
C11_ClientOnlyInClientRoomsNeverInRoomId ==
    [][\A s \in Sessions :
         (sockets'[s].status = "connected" /\ sockets'[s].onlyClient) =>
            /\ sockets'[s].rooms \subseteq ClientRoomsOf(sockets'[s])
            /\ sockets'[s].rooms \cap sockets'[s].sentRoomIds = {}
            /\ (Handles("join-room") /\ event'.from = s) =>
                  sockets'[s].rooms =
                     sockets[s].rooms \cup {ClientRoom(event'.userId)}]_vars

\* C11, amended: such a session is a member only of the room of its own
\* socket id and of the rooms client-U of the userIds U it sent, so it is
\* in a roomId it supplied only when that roomId is one of those rooms;
\* each such join-room adds the session to client-U and to no other room.
C11_ClientOnlyInOwnAndClientRooms ==
    [][\A s \in Sessions :
         (sockets'[s].status = "connected" /\ sockets'[s].onlyClient) =>
            /\ sockets'[s].rooms \subseteq
                  {SocketId(s)} \cup ClientRoomsOf(sockets'[s])
            /\ \A r \in sockets'[s].rooms \cap sockets'[s].sentRoomIds :
                  r \in ClientRoomsOf(sockets'[s])
            /\ (Handles("join-room") /\ event'.from = s) =>
                  sockets'[s].rooms =
                     sockets[s].rooms \cup {ClientRoom(event'.userId)}]_vars

\* C11's case: a client session has sent two userIds and named the team
\* room, and is in both client rooms and not in the team room.
C11_Witness ==
    \E s \in Sessions :
        /\ sockets[s].status = "connected"
        /\ sockets[s].onlyClient
        /\ sockets[s].sentUserIds = UserIdInputs
        /\ <<"team">> \in sockets[s].sentRoomIds
        /\ <<"team">> \notin sockets[s].rooms
        /\ ClientRoomsOf(sockets[s]) \subseteq sockets[s].rooms

\* C12: a new-message naming room R emits message-received to every other
\* session that is in R at that moment and to no session that is not in R;
\* the payload is the submitted message with the server's timestamp.
C12_BroadcastReachesTheRoomOnly ==
    [][Handles("new-message") =>
         LET R == event'.roomId
             InR(s) == sockets[s].status = "connected"
                          /\ R \in sockets[s].rooms
         IN  /\ broadcast'.roomId = R
             /\ \A s \in Sessions \ {event'.from} :
                   InR(s) => s \in broadcast'.to
             /\ \A s \in broadcast'.to : InR(s)
             /\ broadcast'.payload.text = broadcast'.submitted.text
             /\ broadcast'.payload.timestamp = ToISOString(clock)]_vars

\* C12's case: a message was delivered to another session of its room
\* while the connected sender, outside the room, received nothing.
C12_Witness ==
    /\ event.name = "new-message"
    /\ sockets[event.from].status = "connected"
    /\ event.from \notin broadcast.to
    /\ \E s \in broadcast.to : event.roomId \in sockets[s].rooms
    /\ broadcast.submitted.timestamp # NoText
    /\ broadcast.payload.timestamp # broadcast.submitted.timestamp

\* C13: once a termination signal is received the process eventually
\* exits, with code 0 after the server has closed or with code 1 by the
\* forced-exit timer; it never keeps running forever after a signal.
C13_SignalLeadsToExit ==
    /\ [](signals # <<>> /\ proc = "exited" =>
            \/ exitCode = 0 /\ closing /\ conns = 0
            \/ exitCode = 1 /\ timers # {} /\ clock = NextDue(timers))
    /\ (signals # <<>>) ~> (proc = "exited" /\ exitCode \in {0, 1})

\* C13's case: closing hung on an open connection and the timer of the
\* first signal ended the process with code 1.
C13_Witness ==
    /\ signals # <<>>
    /\ conns > 0
    /\ proc = "exited"
    /\ exitCode = 1
    /\ clock >= ClockStart + ForcedExitDelay

\* The ids of the two fixtures.
FixtureIds == <<(<<"1">>), (<<"2">>)>>

\* A POST is answered in this step from the fallback, or with the
\* database record.
AnswersFromMemory ==
    /\ Answers
    /\ last'.kind = "post"
    /\ last'.text = "Message sent successfully (stored in memory)"
AnswersFromDatabase ==
    /\ Answers
    /\ last'.kind = "post"
    /\ last'.text = "Message sent successfully"

\* C14: under every interleaving of POST and GET /api/messages the
\* in-memory list starts with the two fixtures and only grows at its end:
\* a POST answered from the fallback, whether the pair is unset, the insert
\* failed or the notification rejected, appends its record exactly once,
\* and no other step changes the list: not a POST answered with the
\* database record, and not a POST that an exception ends without an
\* answer, which never reaches the fallback.
C14_ListIsAppendOnly ==
    [][(variant = "hybrid" /\ proc = "running") =>
         /\ Len(messagesStorage') >= 2
         /\ <<messagesStorage'[1].id, messagesStorage'[2].id>> = FixtureIds
         /\ SubSeq(messagesStorage', 1, Len(messagesStorage))
               = messagesStorage
         /\ IF AnswersFromMemory
              THEN /\ messagesStorage'
                         = messagesStorage \o <<last'.newMessage>>
                   /\ last'.data = last'.newMessage
                   /\ last'.pushes = 1
              ELSE messagesStorage' = messagesStorage
         /\ (Answers /\ last'.kind = "post" /\ ~AnswersFromMemory)
               => last'.pushes = 0
         /\ AnswersFromDatabase =>
               /\ IsDbId(last'.data.id)
               /\ last'.pushes = 0]_vars

\* C14's case: a POST whose insert failed has appended its record while
\* another request is still suspended at the database.
C14_Witness ==
    /\ variant = "hybrid"
    /\ Len(messagesStorage) = 3
    /\ last.kind = "post"
    /\ last.dbCalls = 1
    /\ last.pushes = 1
    /\ messagesStorage[3] = last.newMessage
    /\ \E i \in 1..Len(inflight) : inflight[i].pc \in {"insert", "query"}

\* parseInt of a string of decimal digits.
DigitValue(c) == CHOOSE d \in 0..9 : Digits[d + 1] = c
RECURSIVE ParseInt(_)
ParseInt(digits) ==
    IF digits = <<>> THEN 0
    ELSE 10 * ParseInt(SubSeq(digits, 1, Len(digits) - 1))
            + DigitValue(digits[Len(digits)])

\* The milliseconds of a timestamp of the first second after the epoch.
Millis(iso) == ParseInt(SubSeq(iso, 2, 4))

\* The records appended after the two fixtures are in the order of their
\* creation: a later one has no smaller id and no smaller created_at.
OrderedByCreation(list) ==
    \A i, j \in 3..Len(list) :
        i < j => /\ ParseInt(list[i].id) <= ParseInt(list[j].id)
                 /\ Millis(list[i].created_at) <= Millis(list[j].created_at)

\* C15, as stated: under every interleaving of POSTs whose database
\* attempt fails or is skipped, the records appended after the fixtures
\* are ordered by creation time.
C15_AppendedRecordsOrderedByCreation ==
    (variant = "hybrid" /\ proc = "running") =>
        OrderedByCreation(messagesStorage)

\* C15, amended: the records appended after the fixtures are ordered by
\* creation time as long as no POST was received while another POST was
\* suspended at an await.
C15_SequentialPostsOrderedByCreation ==
    (variant = "hybrid" /\ proc = "running" /\ ~overlapped) =>
        OrderedByCreation(messagesStorage)

\* C15's case: two POSTs, one after the other and a millisecond apart,
\* have each failed at the database and appended their records.
C15_Witness ==
    /\ variant = "hybrid"
    /\ ~overlapped
    /\ Len(messagesStorage) = 4
    /\ ParseInt(messagesStorage[3].id) < ParseInt(messagesStorage[4].id)
    /\ Millis(messagesStorage[3].created_at)
          < Millis(messagesStorage[4].created_at)

====
